---- MODULE Spec2Model ----
(***************************************************************************)
(* Risk-gated signal admission of caktykbot: RiskValidator.validate and    *)
(* the components it sequences (CircuitBreaker, HeatMonitor,               *)
(* PositionSizer, sector and correlation guards), and the pipeline around  *)
(* it (SignalGenerator.generate, /follow, /confirm).                       *)
(*                                                                         *)
(* Units.  Fractions (risk, heat, exposure, correlation) are integers in   *)
(* basis points, 1.0 = FracDen.  Money is whole rupiah.  Time is whole     *)
(* days.  Arithmetic is exact (Python's float rounding is not modelled);   *)
(* every capital is a multiple of FracDen whose quotient divides 100, so   *)
(* that capital * fraction and (lot value) / capital are whole numbers.    *)
(***************************************************************************)
EXTENDS Integers, Naturals, Sequences, FiniteSets, TLC

FracDen == 10000

\* Python None for an optional number / date, and for an optional string.
NoneInt == 0 - 1
NoneStr == "None"

\* ------------------------------------------------------------------------
\* risk/constants.py
\* ------------------------------------------------------------------------
MAX_PORTFOLIO_HEAT == 800
HEAT_WARNING_LEVEL == 600
MAX_EXPOSURE_PER_STOCK == 2500
MAX_SMALL_CAP_EXPOSURE == 1500
MIN_CASH_RESERVE == 3000
MAX_STOCKS_PER_SECTOR == 2
CORRELATION_THRESHOLD == 7000
CORRELATION_LOOKBACK_DAYS == 90
CB_DRAWDOWN_TRIGGER == 1000
CB_CONSECUTIVE_LOSS_TRIGGER == 5
CB_DRAWDOWN_SUSPEND_DAYS == 7
CB_LOSS_SUSPEND_DAYS == 3
CB_REDUCED_RISK == 25

\* the exchange lot (the literal 100 of position_sizer.py and risk_validator.py)
LotUnit == 100
\* the "SL too wide" literal 0.15 of position_sizer.py
SL_WIDE_LIMIT == 1500

DRAWDOWN_10PCT == "drawdown_10pct"
CONSECUTIVE_LOSS_5 == "consecutive_loss_5"

\* ------------------------------------------------------------------------
\* helpers
\* ------------------------------------------------------------------------
Max(a, b) == IF a >= b THEN a ELSE b

\* a message: its text and the one number formatted into it
Msg(text, val) == [text |-> text, val |-> val]
NoMsg == Msg(NoneStr, 0)

\* capital * frac, for a fraction in basis points
FracOf(frac, capital) == frac * (capital \div FracDen)
\* rupiah / capital as a fraction in basis points
ToFrac(rupiah, capital) == rupiah \div (capital \div FracDen)

RECURSIVE SumSeq(_)
SumSeq(s) == IF s = <<>> THEN 0 ELSE Head(s) + SumSeq(Tail(s))

\* [f(x) for x in s]
MapSeq(s, f(_)) == [i \in 1..Len(s) |-> f(s[i])]

\* ------------------------------------------------------------------------
\* risk/heat_monitor.py
\* ------------------------------------------------------------------------
TradeRisk(t) == t.risk_percent
TradeExposure(t) == t.qty_remaining * t.entry_price

calculate_portfolio_heat(open_trades, total_capital, max_heat_limit) ==
    LET current_heat == SumSeq(MapSeq(open_trades, TradeRisk))
        total_exposure == SumSeq(MapSeq(open_trades, TradeExposure))
        cash_reserve == total_capital - total_exposure
        cash_reserve_pct == IF total_capital > 0
                            THEN ToFrac(cash_reserve, total_capital) ELSE 0
        status == IF current_heat >= max_heat_limit THEN "limit"
                  ELSE IF current_heat >= HEAT_WARNING_LEVEL THEN "warning"
                  ELSE "safe"
    IN [current_heat |-> current_heat,
        max_heat |-> max_heat_limit,
        available_heat |-> Max(0, max_heat_limit - current_heat),
        status |-> status,
        total_exposure |-> total_exposure,
        cash_reserve_pct |-> cash_reserve_pct,
        cash_reserve_ok |-> IF total_capital > 0
                            THEN cash_reserve >= FracOf(MIN_CASH_RESERVE, total_capital)
                            ELSE 0 >= MIN_CASH_RESERVE]

\* the projection refused already when it reaches the limit (>= for >)
project_heat_at_limit(current_heat, new_trade_risk, max_heat_limit) ==
    LET projected_heat == current_heat + new_trade_risk
        would_exceed == projected_heat >= max_heat_limit
    IN [projected_heat |-> projected_heat,
        would_exceed |-> would_exceed,
        message |-> IF would_exceed THEN Msg("Heat Limit Reached. Signal blocked.", projected_heat)
                    ELSE Msg("", 0)]

project_heat_with_new_trade(current_heat, new_trade_risk, max_heat_limit) ==
    LET projected_heat == current_heat + new_trade_risk
        would_exceed == projected_heat > max_heat_limit
    IN [projected_heat |-> projected_heat,
        would_exceed |-> would_exceed,
        message |-> IF would_exceed THEN Msg("Heat Limit Reached. Signal blocked.", projected_heat)
                    ELSE Msg("", 0)]

\* ------------------------------------------------------------------------
\* risk/position_sizer.py
\* ------------------------------------------------------------------------
\* the error result without its error text
SizingError_without_error(text) ==
    [error |-> "", risk_amount |-> 0, sl_distance |-> 0, shares |-> 0,
     lots |-> 0, exposure_rupiah |-> 0, exposure_pct |-> 0, warnings |-> <<>>,
     max_exposure_limit |-> 0, is_small_cap |-> FALSE]

SizingError(text) ==
    [error |-> text, risk_amount |-> 0, sl_distance |-> 0, shares |-> 0,
     lots |-> 0, exposure_rupiah |-> 0, exposure_pct |-> 0, warnings |-> <<>>,
     max_exposure_limit |-> 0, is_small_cap |-> FALSE]

\* the sizing with the shares rounded up to a whole lot
calculate_position_size_round_up(capital, risk_pct, entry_price, sl_price, is_small_cap) ==
    IF capital <= 0 THEN SizingError("Capital must be > 0")
    ELSE IF entry_price <= 0 \/ sl_price <= 0 THEN SizingError("Prices must be > 0")
    ELSE IF sl_price >= entry_price THEN SizingError("SL must be below Entry for Long positions")
    ELSE
    LET risk_amount == FracOf(risk_pct, capital)
        sl_distance == entry_price - sl_price
        wide == IF sl_distance * FracDen > SL_WIDE_LIMIT * entry_price
                THEN <<Msg("SL too wide", sl_distance)>>
                ELSE <<>>
        raw_shares == risk_amount \div sl_distance
        lots0 == (raw_shares + LotUnit - 1) \div LotUnit
        shares0 == lots0 * LotUnit
        max_exposure_limit == IF is_small_cap THEN MAX_SMALL_CAP_EXPOSURE
                              ELSE MAX_EXPOSURE_PER_STOCK
        max_allowed_rupiah == FracOf(max_exposure_limit, capital)
        max_allowed_shares == max_allowed_rupiah \div entry_price
        \* exposure_pct > max_exposure_limit, that is
        \* shares * entry_price > capital * max_exposure_limit; both sides are
        \* divided by entry_price so that the product stays within 32 bits
        capped == shares0 > max_allowed_shares
        lots == IF capped THEN max_allowed_shares \div LotUnit ELSE lots0
        shares == lots * LotUnit
        exposure_rupiah == shares * entry_price
        exposure_pct == ToFrac(exposure_rupiah, capital)
    IN [error |-> "",
        risk_amount |-> risk_amount,
        sl_distance |-> sl_distance,
        shares |-> shares,
        lots |-> lots,
        exposure_rupiah |-> exposure_rupiah,
        exposure_pct |-> exposure_pct,
        warnings |-> IF capped
                     THEN Append(wide, Msg("Exposure exceeds max", max_exposure_limit))
                     ELSE wide,
        max_exposure_limit |-> max_exposure_limit,
        is_small_cap |-> is_small_cap]

calculate_position_size(capital, risk_pct, entry_price, sl_price, is_small_cap) ==
    IF capital <= 0 THEN SizingError("Capital must be > 0")
    ELSE IF entry_price <= 0 \/ sl_price <= 0 THEN SizingError("Prices must be > 0")
    ELSE IF sl_price >= entry_price THEN SizingError("SL must be below Entry for Long positions")
    ELSE
    LET risk_amount == FracOf(risk_pct, capital)
        sl_distance == entry_price - sl_price
        wide == IF sl_distance * FracDen > SL_WIDE_LIMIT * entry_price
                THEN <<Msg("SL too wide", sl_distance)>>
                ELSE <<>>
        raw_shares == risk_amount \div sl_distance
        lots0 == raw_shares \div LotUnit
        shares0 == lots0 * LotUnit
        max_exposure_limit == IF is_small_cap THEN MAX_SMALL_CAP_EXPOSURE
                              ELSE MAX_EXPOSURE_PER_STOCK
        max_allowed_rupiah == FracOf(max_exposure_limit, capital)
        max_allowed_shares == max_allowed_rupiah \div entry_price
        \* exposure_pct > max_exposure_limit, that is
        \* shares * entry_price > capital * max_exposure_limit; both sides are
        \* divided by entry_price so that the product stays within 32 bits
        capped == shares0 > max_allowed_shares
        lots == IF capped THEN max_allowed_shares \div LotUnit ELSE lots0
        shares == lots * LotUnit
        exposure_rupiah == shares * entry_price
        exposure_pct == ToFrac(exposure_rupiah, capital)
    IN [error |-> "",
        risk_amount |-> risk_amount,
        sl_distance |-> sl_distance,
        shares |-> shares,
        lots |-> lots,
        exposure_rupiah |-> exposure_rupiah,
        exposure_pct |-> exposure_pct,
        warnings |-> IF capped
                     THEN Append(wide, Msg("Exposure exceeds max", max_exposure_limit))
                     ELSE wide,
        max_exposure_limit |-> max_exposure_limit,
        is_small_cap |-> is_small_cap]

\* ------------------------------------------------------------------------
\* risk/sector_mapper.py.  db is the sector_map collection: a set of
\* documents [symbol, sector, market_cap_category], one per mapped symbol.
\* ------------------------------------------------------------------------
get_sector_info(symbol, db) ==
    IF \E m \in db : m.symbol = symbol
    THEN LET mapping == CHOOSE m \in db : m.symbol = symbol
         IN <<mapping.sector, mapping.market_cap_category>>
    ELSE <<"Other", "small">>

\* mappings.get(tsym, "Other")
MappedSector(tsym, db) ==
    IF \E m \in db : m.symbol = tsym
    THEN (CHOOSE m \in db : m.symbol = tsym).sector
    ELSE "Other"

check_sector_limit(symbol, sector, open_trades, db) ==
    LET search_symbols == SelectSeq(open_trades, LAMBDA t : t.symbol # symbol)
        Counted(t) == IF t.symbol # symbol
                         /\ MappedSector(t.symbol, db) = sector
                         /\ sector # "Other"
                      THEN 1 ELSE 0
        current_count == SumSeq(MapSeq(open_trades, Counted))
    IN IF search_symbols = <<>>
       THEN [allowed |-> TRUE, count |-> 0, max |-> MAX_STOCKS_PER_SECTOR,
             message |-> Msg("", 0)]
       ELSE IF current_count >= MAX_STOCKS_PER_SECTOR
       THEN [allowed |-> FALSE, count |-> current_count,
             max |-> MAX_STOCKS_PER_SECTOR,
             message |-> Msg("Sector limit: stocks already open", current_count)]
       ELSE [allowed |-> TRUE, count |-> current_count,
             max |-> MAX_STOCKS_PER_SECTOR, message |-> Msg("", 0)]

\* ------------------------------------------------------------------------
\* risk/correlation.py.  A return series is [present, len, valid, corr]:
\* len observations of which valid are not NaN; corr is the Pearson
\* coefficient (basis points) pandas computes for it against the benchmark
\* over the trailing window.  present = FALSE is Python None.
\* ------------------------------------------------------------------------
NoSeries == [present |-> FALSE, len |-> 0, valid |-> 0, corr |-> 0]

\* the default of calculate_correlation's period parameter
DefaultPeriod == 90

\* the coefficient computed without the two length checks
calculate_correlation_unchecked(stock_returns, ihsg_returns, period) ==
    stock_returns.corr

calculate_correlation(stock_returns, ihsg_returns, period) ==
    IF stock_returns.len < period \/ ihsg_returns.len < period THEN 0
    ELSE LET df_len == IF stock_returns.valid <= ihsg_returns.valid
                       THEN stock_returns.valid ELSE ihsg_returns.valid
         IN IF df_len < period THEN 0 ELSE stock_returns.corr

should_reduce_size_by_correlation(correlation) ==
    correlation > CORRELATION_THRESHOLD

\* ------------------------------------------------------------------------
\* risk/circuit_breaker.py.  now is datetime.now(timezone.utc), in days.
\* A closed trade is [pnl_rupiah, exit_date]; exit_date = NoneInt when the
\* document has none.
\* ------------------------------------------------------------------------
\* the model's calendar: months of DaysPerMonth days, day 0 opens a month
DaysPerMonth == 30
StartOfMonth(now) == now - (now % DaysPerMonth)

HasExit(t) == t.exit_date # NoneInt
TradePnl(t) == t.pnl_rupiah

calculate_monthly_drawdown(trades, current_capital, now) ==
    LET start_of_month == StartOfMonth(now)
        monthly_trades == SelectSeq(trades,
            LAMBDA t : HasExit(t) /\ t.exit_date >= start_of_month)
        realized_pnl == SumSeq(MapSeq(monthly_trades, TradePnl))
        start_capital == current_capital - realized_pnl
    IN IF start_capital <= 0 THEN 0
       ELSE IF realized_pnl < 0
       THEN ((0 - realized_pnl) * FracDen) \div start_capital
       ELSE 0

\* dd >= CB_DRAWDOWN_TRIGGER, compared exactly (the quotient above is
\* rounded down to a basis point, the comparison is not affected)
DrawdownTriggered(dd) == dd >= CB_DRAWDOWN_TRIGGER

\* sorted(..., key=exit_date, reverse=True): stable, equal dates keep their
\* order in the list
RECURSIVE InsertDesc(_, _)
InsertDesc(t, sorted) ==
    IF sorted = <<>> THEN <<t>>
    ELSE IF Head(sorted).exit_date >= t.exit_date
         THEN <<Head(sorted)>> \o InsertDesc(t, Tail(sorted))
         ELSE <<t>> \o sorted

RECURSIVE SortByExitDesc(_)
SortByExitDesc(trades) ==
    IF trades = <<>> THEN <<>>
    ELSE InsertDesc(trades[Len(trades)],
                    SortByExitDesc(SubSeq(trades, 1, Len(trades) - 1)))

RECURSIVE LeadingLosses(_)
LeadingLosses(sorted_trades) ==
    IF sorted_trades = <<>> THEN 0
    ELSE IF Head(sorted_trades).pnl_rupiah < 0
         THEN 1 + LeadingLosses(Tail(sorted_trades))
         ELSE 0

\* the count taken in the order the trades were passed in
count_consecutive_losses_unsorted(trades) ==
    LeadingLosses(SelectSeq(trades, HasExit))

count_consecutive_losses(trades) ==
    LeadingLosses(SortByExitDesc(SelectSeq(trades, HasExit)))

\* Python truthiness of the optional values read with .get()
TruthyStr(x) == x # NoneStr /\ x # ""
\* a risk_override that is never taken
TruthyNum_never(x) == FALSE

TruthyNum(x) == x # NoneInt /\ x # 0

\* active_suspension: [present, trigger_type, suspended_until, risk_override,
\* owner]; present = FALSE is None.  (owner is the portfolio the event was
\* raised for; no code reads it.)
NoSuspension ==
    [present |-> FALSE, trigger_type |-> NoneStr, suspended_until |-> NoneInt,
     risk_override |-> NoneInt, owner |-> NoneStr]

CbInactive ==
    [is_active |-> FALSE, trigger_type |-> NoneStr, trigger_value |-> NoneInt,
     suspended_until |-> NoneInt, risk_override |-> NoneInt,
     message |-> Msg("Circuit breaker inactive", 0), fresh |-> FALSE]

\* the status dict; fresh tells the two active shapes apart (the recorded
\* suspension has no suspended_until / trigger_value key)
check(closed_trades, current_capital, active_suspension, now) ==
    IF /\ active_suspension.present
       /\ active_suspension.suspended_until # NoneInt
       /\ active_suspension.suspended_until > now
    THEN [is_active |-> TRUE,
          trigger_type |-> active_suspension.trigger_type,
          trigger_value |-> NoneInt,
          suspended_until |-> NoneInt,
          risk_override |-> active_suspension.risk_override,
          message |-> Msg("Trading suspended until", active_suspension.suspended_until),
          fresh |-> FALSE]
    ELSE
    LET dd == calculate_monthly_drawdown(closed_trades, current_capital, now)
        losses == count_consecutive_losses(closed_trades)
    IN IF DrawdownTriggered(dd)
       THEN [is_active |-> TRUE,
             trigger_type |-> DRAWDOWN_10PCT,
             trigger_value |-> dd,
             suspended_until |-> now + CB_DRAWDOWN_SUSPEND_DAYS,
             risk_override |-> CB_REDUCED_RISK,
             message |-> Msg("CIRCUIT BREAKER ACTIVATED: Monthly Drawdown. Suspended until",
                             now + CB_DRAWDOWN_SUSPEND_DAYS),
             fresh |-> TRUE]
       ELSE IF losses >= CB_CONSECUTIVE_LOSS_TRIGGER
       THEN [is_active |-> TRUE,
             trigger_type |-> CONSECUTIVE_LOSS_5,
             trigger_value |-> losses,
             suspended_until |-> now + CB_LOSS_SUSPEND_DAYS,
             risk_override |-> CB_REDUCED_RISK,
             message |-> Msg("CIRCUIT BREAKER ACTIVATED: Consecutive Losses. Suspended until",
                             now + CB_LOSS_SUSPEND_DAYS),
             fresh |-> TRUE]
       ELSE CbInactive

\* ------------------------------------------------------------------------
\* risk/risk_validator.py
\* ------------------------------------------------------------------------
\* the result built without its block_reason (the field left at its default)
RiskValidationResult_no_reason(passed, verdict_override, lot_size, exposure_pct, heat_before, heat_after, warnings, block_reason) ==
    [passed |-> passed, verdict_override |-> verdict_override,
     lot_size |-> lot_size, exposure_pct |-> exposure_pct,
     heat_before |-> heat_before, heat_after |-> heat_after,
     warnings |-> warnings, block_reason |-> NoMsg]

RiskValidationResult(passed, verdict_override, lot_size, exposure_pct, heat_before, heat_after, warnings, block_reason) ==
    [passed |-> passed, verdict_override |-> verdict_override,
     lot_size |-> lot_size, exposure_pct |-> exposure_pct,
     heat_before |-> heat_before, heat_after |-> heat_after,
     warnings |-> warnings, block_reason |-> block_reason]

\* step 6 of validate: the correlation filter applied to the sized position;
\* yields the final shares, lot_size, exposure_pct and the added warnings
CorrelationReclamp(sizing, entry, capital, portfolio_config, stock_returns, ihsg_returns) ==
    LET unchanged == [shares |-> sizing.shares, lot_size |-> sizing.lots,
                      exposure_pct |-> sizing.exposure_pct, warnings |-> <<>>]
    IN IF stock_returns.present /\ ihsg_returns.present
       THEN LET corr == calculate_correlation(stock_returns, ihsg_returns,
                                              DefaultPeriod)
            IN IF should_reduce_size_by_correlation(corr)
                  /\ 2 * sizing.exposure_pct > portfolio_config.max_exposure_pct
               THEN LET max_allowed_shares ==
                            FracOf(portfolio_config.max_exposure_pct, capital)
                                \div (2 * entry)
                        shares == (max_allowed_shares \div LotUnit) * LotUnit
                    IN [shares |-> shares,
                        lot_size |-> shares \div LotUnit,
                        exposure_pct |-> ToFrac(shares * entry, capital),
                        warnings |-> <<Msg("High Correlation. Max exposure reduced", corr)>>]
               ELSE unchanged
       ELSE unchanged

validate(signal, open_trades, portfolio_config, stock_returns, ihsg_returns, active_cb_event, closed_trades, db, now) ==
    LET symbol == signal.symbol
        entry == signal.entry_price
        sl == signal.sl_price
        capital == portfolio_config.total_capital
        cb_status == check(closed_trades, capital, active_cb_event, now)
        hard_block == cb_status.is_active /\ TruthyStr(cb_status.trigger_type)
        reduced == cb_status.is_active /\ TruthyNum(cb_status.risk_override)
        current_risk_per_trade == IF reduced THEN cb_status.risk_override
                                  ELSE portfolio_config.risk_per_trade
        w1 == IF reduced
              THEN <<Msg("Risk reduced due to recent drawdown/losses.",
                         current_risk_per_trade)>>
              ELSE <<>>
        heat_status == calculate_portfolio_heat(open_trades, capital,
                                                portfolio_config.max_heat)
        heat_before == heat_status.current_heat
        w2 == IF heat_status.status = "warning"
              THEN Append(w1, Msg("Portfolio Heat is high", heat_before))
              ELSE w1
        w3 == IF ~heat_status.cash_reserve_ok
              THEN Append(w2, Msg("Cash Reserve below target",
                                  heat_status.cash_reserve_pct))
              ELSE w2
        info == get_sector_info(symbol, db)
        sector == info[1]
        market_cap == info[2]
        sector_check == check_sector_limit(symbol, sector, open_trades, db)
        sizing == calculate_position_size(capital, current_risk_per_trade,
                                          entry, sl, market_cap = "small")
        w4 == w3 \o sizing.warnings
        clamp == CorrelationReclamp(sizing, entry, capital, portfolio_config,
                                    stock_returns, ihsg_returns)
        w5 == w4 \o clamp.warnings
        actual_risk_rupiah == clamp.shares * (entry - sl)
        actual_risk_pct == ToFrac(actual_risk_rupiah, capital)
        heat_proj == project_heat_with_new_trade(heat_before, actual_risk_pct,
                                                 portfolio_config.max_heat)
    IN IF hard_block
       THEN RiskValidationResult(FALSE, "SUSPENDED", NoneInt, NoneInt, 0, 0,
                                 <<cb_status.message>>, cb_status.message)
       ELSE IF heat_status.status = "limit"
       THEN RiskValidationResult(FALSE, "WAIT", NoneInt, NoneInt, heat_before, 0,
                                 <<>>, Msg("Portfolio Heat Limit reached. Close positions first.",
                                           heat_before))
       ELSE IF ~sector_check.allowed
       THEN RiskValidationResult(FALSE, "WAIT", NoneInt, NoneInt, heat_before, 0,
                                 <<>>, sector_check.message)
       ELSE IF sizing.error # ""
       THEN RiskValidationResult(FALSE, "WAIT", NoneInt, NoneInt, heat_before, 0,
                                 <<>>, Msg(sizing.error, 0))
       ELSE IF heat_proj.would_exceed
       THEN RiskValidationResult(FALSE, "WAIT", NoneInt, NoneInt, heat_before,
                                 heat_proj.projected_heat, <<>>,
                                 Msg("Heat Limit Reached.", heat_proj.projected_heat))
       ELSE RiskValidationResult(TRUE, NoneStr, clamp.lot_size, clamp.exposure_pct,
                                 heat_before, heat_proj.projected_heat, w5, NoMsg)

\* ------------------------------------------------------------------------
\* State.
\*   pc          which development the state belongs to and where it stands
\*   inp, res    the arguments of one validate call and its result
\*   now         the wall clock (days)
\*   portfolio_config, trades, circuit_breaker_events, signals
\*               the MongoDB collections the pipeline reads and writes
\*   last        the last SignalGenerator.generate call: its time, what
\*               CircuitBreaker.check returned inside validate, the
\*               RiskValidationResult, and the FinalSignal it returned
\*   awaitable   whether RiskValidator.validate is bound to a coroutine
\* ------------------------------------------------------------------------
VARIABLES pc, inp, res, now, portfolio_config, trades,
          circuit_breaker_events, signals, last, awaitable

vars == <<pc, inp, res, now, portfolio_config, trades,
          circuit_breaker_events, signals, last, awaitable>>

sysvars == <<now, portfolio_config, trades, circuit_breaker_events,
             signals, last, awaitable>>

\* ------------------------------------------------------------------------
\* The data the model draws from
\* ------------------------------------------------------------------------
\* db.sector_map (db/seeds/seed_sectors.py style documents)
SectorMapDocs ==
    { [symbol |-> "BBCA.JK", sector |-> "Banking", market_cap_category |-> "large"],
      [symbol |-> "BBRI.JK", sector |-> "Banking", market_cap_category |-> "large"],
      [symbol |-> "BMRI.JK", sector |-> "Banking", market_cap_category |-> "large"],
      [symbol |-> "ANTM.JK", sector |-> "Mining", market_cap_category |-> "small"] }

\* db/schemas.py PortfolioConfig with its defaults
DefaultConfig ==
    [user |-> "nesa", total_capital |-> 100000, risk_per_trade |-> 100,
     max_heat |-> 800, heat_warning_threshold |-> 600,
     max_exposure_pct |-> 2500, max_small_cap_exposure |-> 1500,
     max_stocks_per_sector |-> 2, cash_reserve_target |-> 3000,
     correlation_threshold |-> 7000, circuit_breaker_enabled |-> TRUE]

NoConfig == [DefaultConfig EXCEPT !.user = NoneStr, !.total_capital = 0]

\* a portfolio whose every limit differs from the default
CustomConfig ==
    [DefaultConfig EXCEPT !.risk_per_trade = 500,
                          !.heat_warning_threshold = 300,
                          !.max_exposure_pct = 2000,
                          !.max_small_cap_exposure = 1000,
                          !.max_stocks_per_sector = 1,
                          !.cash_reserve_target = 5000]

\* the defaults with the circuit breaker switched off
BreakerOffConfig == [DefaultConfig EXCEPT !.circuit_breaker_enabled = FALSE]

Configs ==
    { DefaultConfig,
      [DefaultConfig EXCEPT !.risk_per_trade = 500],
      CustomConfig,
      BreakerOffConfig }

OpenTrade(symbol, risk_percent, qty, entry_price) ==
    [symbol |-> symbol, risk_percent |-> risk_percent,
     qty_remaining |-> qty, entry_price |-> entry_price]

OpenTradeKinds ==
    { OpenTrade("BBRI.JK", 300, 300, 50),
      OpenTrade("BMRI.JK", 400, 1200, 50),
      OpenTrade("ANTM.JK", 800, 1500, 50) }

MaxOpen == 2

RECURSIVE SeqsUpTo(_, _)
SeqsUpTo(S, n) ==
    IF n = 0 THEN { <<>> }
    ELSE LET shorter == SeqsUpTo(S, n - 1)
         IN shorter \cup { Append(q, x) : q \in shorter, x \in S }

OpenTradeLists == SeqsUpTo(OpenTradeKinds, MaxOpen)

\* well-formed candidates (stop below, near, far below the entry), a stop at
\* the entry, and malformed prices
CandidateSignals ==
    { [symbol |-> sym, entry_price |-> 50, sl_price |-> sl] :
        sym \in {"BBCA.JK", "ANTM.JK"}, sl \in {45, 49, 50, 30} }
    \cup { [symbol |-> "BBCA.JK", entry_price |-> 50, sl_price |-> 0],
           [symbol |-> "BBCA.JK", entry_price |-> 0, sl_price |-> 0] }

HighCorrSeries == [present |-> TRUE, len |-> 120, valid |-> 120, corr |-> 9000]
BenchmarkSeries == [present |-> TRUE, len |-> 120, valid |-> 120, corr |-> FracDen]
ReturnPairs == { <<NoSeries, NoSeries>>, <<HighCorrSeries, BenchmarkSeries>> }

\* closed-trade histories: some older trades, then a streak of losses up to
\* the most recent exit; one exit per day, the last one yesterday
MaxStreak == 6
SmallPnl == 100
BigLoss == 12000

ClosedTrade(pnl, exit_date) == [pnl_rupiah |-> pnl, exit_date |-> exit_date]

RECURSIVE Losses(_)
Losses(k) == IF k = 0 THEN <<>> ELSE <<"L">> \o Losses(k - 1)

Reverse(s) == [i \in 1..Len(s) |-> s[Len(s) + 1 - i]]

\* outcomes, oldest first, turned into documents
History(outcomes, loss, today) ==
    [i \in 1..Len(outcomes) |->
        ClosedTrade(IF outcomes[i] = "L" THEN 0 - loss ELSE SmallPnl,
                    today - (Len(outcomes) + 1 - i))]

Outcomes == { older \o Losses(k) :
                older \in { <<>>, <<"W">>, <<"L", "W">> }, k \in 0..MaxStreak }

Histories(today) ==
    { History(o, SmallPnl, today) : o \in Outcomes }
    \cup { Reverse(History(o, SmallPnl, today)) : o \in Outcomes }
    \cup { History(o, BigLoss, today) : o \in Outcomes }

Suspension(trigger_type, suspended_until, risk_override, owner) ==
    [present |-> TRUE, trigger_type |-> trigger_type,
     suspended_until |-> suspended_until, risk_override |-> risk_override,
     owner |-> owner]

Suspensions(today) ==
    { NoSuspension,
      Suspension(DRAWDOWN_10PCT, today + 2, CB_REDUCED_RISK, "nesa"),
      Suspension(CONSECUTIVE_LOSS_5, today, CB_REDUCED_RISK, "nesa"),
      Suspension(NoneStr, today + 2, CB_REDUCED_RISK, "nesa") }

Today == 32

ValidateInputs ==
    { [signal |-> sg, open_trades |-> ot, portfolio_config |-> cf,
       stock_returns |-> rp[1], ihsg_returns |-> rp[2],
       active_cb_event |-> su, closed_trades |-> ct, now |-> Today] :
        sg \in CandidateSignals, ot \in OpenTradeLists, cf \in Configs,
        rp \in ReturnPairs, su \in Suspensions(Today), ct \in Histories(Today) }

NoResult == RiskValidationResult(FALSE, NoneStr, NoneInt, NoneInt, 0, 0, <<>>, NoMsg)

NoInput ==
    [signal |-> [symbol |-> NoneStr, entry_price |-> 0, sl_price |-> 0],
     open_trades |-> <<>>, portfolio_config |-> NoConfig,
     stock_returns |-> NoSeries, ihsg_returns |-> NoSeries,
     active_cb_event |-> NoSuspension, closed_trades |-> <<>>, now |-> 0]

Validate(i) ==
    validate(i.signal, i.open_trades, i.portfolio_config, i.stock_returns,
             i.ihsg_returns, i.active_cb_event, i.closed_trades,
             SectorMapDocs, i.now)

\* ------------------------------------------------------------------------
\* SpecValidate: one call of RiskValidator.validate on drawn arguments
\* ------------------------------------------------------------------------
SysIdle ==
    /\ now = 0
    /\ portfolio_config = NoConfig
    /\ trades = <<>>
    /\ circuit_breaker_events = <<>>
    /\ signals = [s \in {} |-> 0]
    /\ last = 0
    /\ awaitable = FALSE

InitValidate ==
    /\ pc = "call"
    /\ inp \in ValidateInputs
    /\ res = NoResult
    /\ SysIdle

\* the call with the closed trades sorted in place (list.sort for sorted)
CallValidate_sorting_in_place ==
    /\ pc = "call"
    /\ pc' = "returned"
    /\ res' = Validate(inp)
    /\ inp' = [inp EXCEPT !.closed_trades = SortByExitDesc(inp.closed_trades)]
    /\ UNCHANGED sysvars

CallValidate ==
    /\ pc = "call"
    /\ pc' = "returned"
    /\ res' = Validate(inp)
    /\ UNCHANGED <<inp, sysvars>>

NextValidate == CallValidate

SpecValidate == InitValidate /\ [][NextValidate]_vars

\* ------------------------------------------------------------------------
\* SpecSizer: one call of calculate_position_size on drawn arguments
\* (capital in rupiah, a multiple of FracDen when positive)
\* ------------------------------------------------------------------------
SizerCapitals == { -100000, 0, 100000, 1000000000 }
SizerRisks == { 100, 250, 500 }
SizerEntries == { -50, 0, 50, 1000, 7200 }
SizerStops == { -5, 0, 30, 45, 49, 50, 999, 6800, 7300 }

SizerInputs ==
    [capital : SizerCapitals, risk_pct : SizerRisks,
     entry_price : SizerEntries, sl_price : SizerStops,
     is_small_cap : BOOLEAN]

Size(i) ==
    calculate_position_size(i.capital, i.risk_pct, i.entry_price, i.sl_price,
                            i.is_small_cap)

InitSizer ==
    /\ pc = "call"
    /\ inp \in SizerInputs
    /\ res = SizingError("")
    /\ SysIdle

CallSizer ==
    /\ pc = "call"
    /\ pc' = "returned"
    /\ res' = Size(inp)
    /\ UNCHANGED <<inp, sysvars>>

NextSizer == CallSizer

SpecSizer == InitSizer /\ [][NextSizer]_vars

\* ------------------------------------------------------------------------
\* SpecCorrelation: one call of RiskValidator.validate on arguments that
\* vary the two return series: missing, too short, with too few aligned
\* observations, at the threshold, above it
\* ------------------------------------------------------------------------
ShortSeries == [present |-> TRUE, len |-> 60, valid |-> 60, corr |-> 9000]
GappySeries == [present |-> TRUE, len |-> 120, valid |-> 80, corr |-> 9000]
ThresholdSeries ==
    [present |-> TRUE, len |-> 120, valid |-> 120, corr |-> CORRELATION_THRESHOLD]
ShortBenchmark == [present |-> TRUE, len |-> 60, valid |-> 60, corr |-> FracDen]
GappyBenchmark == [present |-> TRUE, len |-> 120, valid |-> 80, corr |-> FracDen]

SeriesPairs ==
    { <<NoSeries, NoSeries>>, <<HighCorrSeries, BenchmarkSeries>>,
      <<HighCorrSeries, NoSeries>>, <<NoSeries, BenchmarkSeries>>,
      <<ShortSeries, BenchmarkSeries>>, <<HighCorrSeries, ShortBenchmark>>,
      <<GappySeries, BenchmarkSeries>>, <<HighCorrSeries, GappyBenchmark>>,
      <<ThresholdSeries, BenchmarkSeries>> }

CorrelationInputs ==
    { [signal |-> sg, open_trades |-> ot, portfolio_config |-> cf,
       stock_returns |-> rp[1], ihsg_returns |-> rp[2],
       active_cb_event |-> su, closed_trades |-> <<>>, now |-> Today] :
        sg \in CandidateSignals, ot \in OpenTradeLists, cf \in Configs,
        rp \in SeriesPairs,
        su \in { NoSuspension,
                 Suspension(NoneStr, Today + 2, CB_REDUCED_RISK, "nesa") } }

InitCorrelation ==
    /\ pc = "call"
    /\ inp \in CorrelationInputs
    /\ res = NoResult
    /\ SysIdle

NextCorrelation == CallValidate

SpecCorrelation == InitCorrelation /\ [][NextCorrelation]_vars

\* ------------------------------------------------------------------------
\* SpecCheck: one call of CircuitBreaker.check on drawn arguments, this
\* month and early in the next one
\* ------------------------------------------------------------------------
\* a month with a win and a larger loss; a single loss of exactly a tenth
\* of the month-start capital 100000 = 90000 + 10000, and one just below
MixedMonth(today) ==
    << ClosedTrade(5000, today - 2), ClosedTrade(-11000, today - 1) >>
TenthLoss(today) == << ClosedTrade(-10000, today - 1) >>
UnderTenthLoss(today) == << ClosedTrade(-9999, today - 1) >>
UndatedLosses ==
    [k \in 1..CB_CONSECUTIVE_LOSS_TRIGGER |-> ClosedTrade(0 - SmallPnl, NoneInt)]

CheckHistories(today) ==
    Histories(today)
    \cup { MixedMonth(today), TenthLoss(today), UnderTenthLoss(today),
           UndatedLosses }

CheckInputs ==
    [closed_trades : CheckHistories(Today),
     current_capital : { 100000, 90000 },
     active_suspension : Suspensions(Today),
     now : { Today, Today + DaysPerMonth - 3 }]

Check(i) ==
    check(i.closed_trades, i.current_capital, i.active_suspension, i.now)

InitCheck ==
    /\ pc = "call"
    /\ inp \in CheckInputs
    /\ res = CbInactive
    /\ SysIdle

CallCheck ==
    /\ pc = "call"
    /\ pc' = "returned"
    /\ res' = Check(inp)
    /\ UNCHANGED <<inp, sysvars>>

NextCheck == CallCheck

SpecCheck == InitCheck /\ [][NextCheck]_vars

\* ------------------------------------------------------------------------
\* The pipeline around validate.
\*
\* trades is db.trades in insertion order; a document is
\*   [user, symbol, status, risk_percent, qty, qty_remaining, entry_price,
\*    exit_date, pnl_rupiah, signal_ref].
\* circuit_breaker_events is db.circuit_breaker_events in insertion order; a
\*   document is a suspension record plus resolved.
\* signals maps a symbol to its latest document of db.signals (the only one
\*   get_signal_by_symbol(symbol, limit=1) returns), NoSignal when none.
\* ------------------------------------------------------------------------
Users == {"nesa", "budi"}
Stocks == {"BBCA.JK", "ANTM.JK"}

TradeDoc(user, symbol, status, risk_percent, qty, entry_price, exit_date, pnl_rupiah, signal_ref) ==
    [user |-> user, symbol |-> symbol, status |-> status,
     risk_percent |-> risk_percent, qty |-> qty, qty_remaining |-> qty,
     entry_price |-> entry_price, exit_date |-> exit_date,
     pnl_rupiah |-> pnl_rupiah, signal_ref |-> signal_ref]

\* a journal of closed trades of user nesa, from a closed-trade history
ClosedDocs(history) ==
    [i \in 1..Len(history) |->
        [TradeDoc("nesa", "BBRI.JK", "closed", 100, 100, 50,
                  history[i].exit_date, history[i].pnl_rupiah, NoneStr)
            EXCEPT !.qty_remaining = 0]]

\* db/repositories/portfolio_repo.py: get_config(user="nesa")
get_config(user) ==
    IF portfolio_config # NoConfig /\ portfolio_config.user = user
    THEN portfolio_config ELSE NoConfig

\* db/repositories/trade_repo.py: get_open_trades(symbol=None, user="nesa")
get_open_trades(symbol, user) ==
    SelectSeq(trades, LAMBDA t : /\ t.user = user
                                 /\ t.status = "open"
                                 /\ (symbol # NoneStr => t.symbol = symbol))

\* db/repositories/trade_repo.py: get_draft_trades(symbol, user="nesa"),
\* newest first
get_draft_trades(symbol, user) ==
    Reverse(SelectSeq(trades, LAMBDA t : /\ t.user = user
                                         /\ t.status = "draft"
                                         /\ (symbol # NoneStr => t.symbol = symbol)))

\* db.trades.find({"status": "closed", "user": user})
find_closed_trades(user) ==
    SelectSeq(trades, LAMBDA t : t.status = "closed" /\ t.user = user)

\* db.circuit_breaker_events.find_one({"resolved": False})
find_active_cb(events) ==
    LET unresolved == SelectSeq(events, LAMBDA e : ~e.resolved)
    IN IF unresolved = <<>> THEN NoSuspension
       ELSE [present |-> TRUE,
             trigger_type |-> unresolved[1].trigger_type,
             suspended_until |-> unresolved[1].suspended_until,
             risk_override |-> unresolved[1].risk_override,
             owner |-> unresolved[1].owner]

\* engine/signal_generator.py: FinalSignal (the scoring fields are left out)
FinalSignal(symbol, date, verdict, entry_price, sl_price) ==
    [symbol |-> symbol, date |-> date, verdict |-> verdict,
     entry_price |-> entry_price, sl_price |-> sl_price,
     lot_size |-> NoneInt, exposure_pct |-> NoneInt,
     heat_before |-> NoneInt, heat_after |-> NoneInt,
     risk_warnings |-> <<>>, risk_blocked |-> FALSE, block_reason |-> NoMsg]

\* lines 196-206 of generate: the result applied to the signal
ApplyResult(base_signal, risk_result) ==
    LET blocked == IF ~risk_result.passed
                   THEN [base_signal EXCEPT
                            !.verdict = IF risk_result.verdict_override # NoneStr
                                        THEN risk_result.verdict_override
                                        ELSE "WAIT",
                            !.risk_blocked = TRUE,
                            !.block_reason = risk_result.block_reason]
                   ELSE base_signal
    IN [blocked EXCEPT !.lot_size = risk_result.lot_size,
                       !.exposure_pct = risk_result.exposure_pct,
                       !.heat_before = risk_result.heat_before,
                       !.heat_after = risk_result.heat_after,
                       !.risk_warnings = risk_result.warnings]

\* the except branch of generate
RiskError(base_signal, error) ==
    [base_signal EXCEPT !.risk_warnings = <<Msg("Risk validation error", 0)>>]

\* the candidate the strategies produce for a stock; present = FALSE when
\* no strategy fires
NoCandidate == [present |-> FALSE, entry_price |-> 0, sl_price |-> 0]
Candidate == [present |-> TRUE, entry_price |-> 50, sl_price |-> 45]

\* the repository reads of generate, in order; one of them may fail
Reads == <<"get_config", "get_open_trades", "find_closed", "find_active_cb">>
Faults == {NoneStr} \cup { Reads[i] : i \in 1..Len(Reads) }

NoCall ==
    [called |-> FALSE, at |-> 0, symbol |-> NoneStr, validated |-> FALSE,
     cb_status |-> CbInactive, risk_result |-> NoResult, error |-> NoneStr,
     signal |-> FinalSignal(NoneStr, 0, NoneStr, 0, 0)]

\* the four repository reads of generate's risk gate (lines 124-146)
repository_reads ==
    [config |-> get_config("nesa"),
     \* the user is passed where get_open_trades takes the symbol
     open_trades |-> get_open_trades(get_config("nesa").user, "nesa"),
     closed_trades |-> find_closed_trades(get_config("nesa").user),
     active_cb |-> find_active_cb(circuit_breaker_events)]

\* the risk validation gate of generate on what the reads returned; fault
\* names the read that raises (NoneStr: none)
risk_gate(symbol, cand, fault, read) ==
    LET call == [NoCall EXCEPT !.called = TRUE, !.at = now, !.symbol = symbol]
        base_signal == FinalSignal(symbol, now, "BUY", cand.entry_price,
                                   cand.sl_price)
        cb_status == check(read.closed_trades, read.config.total_capital,
                           read.active_cb, now)
        risk_result == validate([symbol |-> symbol,
                                 entry_price |-> cand.entry_price,
                                 sl_price |-> cand.sl_price],
                                read.open_trades, read.config, NoSeries,
                                NoSeries, read.active_cb, read.closed_trades,
                                SectorMapDocs, now)
        outcome == [cb_status |-> cb_status, risk_result |-> risk_result]
        failed(error) == [call EXCEPT !.error = error,
                                      !.signal = RiskError(base_signal, error)]
    IN IF ~cand.present
       THEN [call EXCEPT !.signal = FinalSignal(symbol, now, "HOLD", 0, 0)]
       ELSE IF fault = "get_config" THEN failed("RepositoryUnavailable")
       ELSE IF read.config = NoConfig THEN [call EXCEPT !.signal = base_signal]
       ELSE IF fault # NoneStr THEN failed("RepositoryUnavailable")
       \* get_open_trades returns Trade models, validate reads dicts
       ELSE IF read.open_trades # <<>> THEN failed("AttributeError")
       ELSE CHOOSE done \in
              { IF ~awaitable
                THEN [call EXCEPT !.error = "TypeError",
                                  !.signal = RiskError(base_signal, "TypeError"),
                                  !.validated = TRUE,
                                  !.cb_status = o.cb_status,
                                  !.risk_result = o.risk_result]
                ELSE [call EXCEPT !.validated = TRUE,
                                  !.cb_status = o.cb_status,
                                  !.risk_result = o.risk_result,
                                  !.signal = ApplyResult(base_signal,
                                                         o.risk_result)]
                : o \in {outcome} } : TRUE

\* SignalGenerator.generate(symbol, strategy_signals), run to completion with
\* both repositories set. Returns the call record; its signal field is the
\* FinalSignal returned.
generate(symbol, cand, fault) ==
    CHOOSE call \in { risk_gate(symbol, cand, fault, read) :
                        read \in {repository_reads} } : TRUE

\* db/repositories/signal_repo.py: upsert_signal stores the base fields only
SignalDoc(signal) ==
    [symbol |-> signal.symbol, date |-> signal.date,
     verdict |-> signal.verdict, entry_price |-> signal.entry_price,
     sl_price |-> signal.sl_price]

NoSignalDoc == SignalDoc(FinalSignal(NoneStr, 0, NoneStr, 0, 0))

\* ------------------------------------------------------------------------
\* Actions of the pipeline
\* ------------------------------------------------------------------------
MaxTicks == 4
MaxTrades == 2

OpenCount == Len(SelectSeq(trades, LAMBDA t : t.status # "closed"))

\* data/pipeline.py run_analysis, one stock of the loop: generate, then
\* signal_repo.upsert_signal
AnalyzeStock(symbol, cand, fault) ==
    /\ pc = "run"
    /\ \E call \in {generate(symbol, cand, fault)} :
          /\ last' = call
          /\ signals' = [signals EXCEPT ![symbol] = SignalDoc(call.signal)]
    /\ UNCHANGED <<pc, inp, res, now, portfolio_config, trades,
                   circuit_breaker_events, awaitable>>

\* bot/handlers/follow_handler.py handle_follow_command: a draft trade from
\* the latest signal of the symbol
FollowDraft(signal, config) ==
    LET risk_amount == FracOf(config.risk_per_trade, config.total_capital)
        entry == signal.entry_price
        sl == signal.sl_price
        risk_per_share == IF entry >= sl THEN entry - sl ELSE sl - entry
        qty_shares == risk_amount \div risk_per_share
        qty_final == (qty_shares \div LotUnit) * LotUnit
    IN TradeDoc("nesa", signal.symbol, "draft", config.risk_per_trade * 100,
                qty_final, entry, NoneInt, NoneInt, signal.symbol)

Follow(symbol) ==
    /\ pc = "run"
    /\ OpenCount < MaxTrades
    /\ LET signal == signals[symbol]
           config == get_config("nesa")
       IN /\ signal # NoSignalDoc
          /\ signal.verdict = "BUY"
          /\ config # NoConfig
          /\ signal.entry_price # signal.sl_price
          /\ FollowDraft(signal, config).qty >= LotUnit
          /\ trades' = Append(trades, FollowDraft(signal, config))
    /\ UNCHANGED <<pc, inp, res, now, portfolio_config,
                   circuit_breaker_events, signals, last, awaitable>>

\* bot/handlers/follow_handler.py handle_confirm_command: the latest draft of
\* the symbol becomes an open trade
Confirm(symbol) ==
    /\ pc = "run"
    /\ get_draft_trades(symbol, "nesa") # <<>>
    /\ LET draft == get_draft_trades(symbol, "nesa")[1]
           idx == CHOOSE i \in 1..Len(trades) :
                     /\ trades[i] = draft
                     /\ \A j \in (i + 1)..Len(trades) : trades[j] # draft
       IN trades' = [trades EXCEPT ![idx].status = "open"]
    /\ UNCHANGED <<pc, inp, res, now, portfolio_config,
                   circuit_breaker_events, signals, last, awaitable>>

\* the wall clock
Tick ==
    /\ pc = "run"
    /\ now < Today + MaxTicks
    /\ now' = now + 1
    /\ UNCHANGED <<pc, inp, res, portfolio_config, trades,
                   circuit_breaker_events, signals, last, awaitable>>

\* the portfolios and journals the pipeline starts from
InitHistories ==
    { <<>>,
      History(Losses(CB_CONSECUTIVE_LOSS_TRIGGER), SmallPnl, Today),
      History(<<"W", "L">>, BigLoss, Today) }

InitConfigs ==
    { NoConfig,
      [DefaultConfig EXCEPT !.risk_per_trade = 250, !.max_heat = 400,
                            !.heat_warning_threshold = 300] }

\* db.circuit_breaker_events as found at start: empty, or one unresolved
\* suspension raised yesterday for one of the portfolios
EventDoc(trigger_type, suspended_until, owner) ==
    [present |-> TRUE, trigger_type |-> trigger_type,
     suspended_until |-> suspended_until, risk_override |-> CB_REDUCED_RISK,
     owner |-> owner, resolved |-> FALSE]

InitEvents ==
    { <<>> } \cup
    { <<EventDoc(CONSECUTIVE_LOSS_5, Today - 1 + CB_LOSS_SUSPEND_DAYS, u)>> :
        u \in Users }

Init ==
    /\ pc = "run"
    /\ inp = NoInput
    /\ res = NoResult
    /\ now = Today
    /\ portfolio_config \in InitConfigs
    /\ \E h \in InitHistories : trades = ClosedDocs(h)
    /\ circuit_breaker_events \in InitEvents
    /\ signals = [s \in Stocks |-> NoSignalDoc]
    /\ last = NoCall
    /\ awaitable \in BOOLEAN

\* Spec: one analysis run and the user following its signals, on one day
Next ==
    \/ \E symbol \in Stocks, cand \in {NoCandidate, Candidate}, fault \in Faults :
          AnalyzeStock(symbol, cand, fault)
    \/ \E symbol \in Stocks : Follow(symbol)
    \/ \E symbol \in Stocks : Confirm(symbol)

Spec == Init /\ [][Next]_vars

\* SpecBreaker: analysis runs over several days of a configured portfolio
InitBreaker ==
    /\ Init
    /\ portfolio_config # NoConfig

NextBreaker ==
    \/ \E symbol \in Stocks : AnalyzeStock(symbol, Candidate, NoneStr)
    \/ Tick

SpecBreaker == InitBreaker /\ [][NextBreaker]_vars

\* ------------------------------------------------------------------------
\* SpecRepeat: RiskValidator.validate called twice on the same arguments,
\* with the stores untouched; check reads datetime.now(timezone.utc) at each
\* call, and the clock may advance between the two
\* ------------------------------------------------------------------------
RepeatInputs ==
    { [signal |-> [symbol |-> "BBCA.JK", entry_price |-> 50, sl_price |-> 45],
       open_trades |-> ot, portfolio_config |-> cf,
       stock_returns |-> rp[1], ihsg_returns |-> rp[2],
       active_cb_event |-> su, closed_trades |-> ct, now |-> Today] :
        ot \in OpenTradeLists, cf \in Configs, rp \in ReturnPairs,
        su \in Suspensions(Today),
        ct \in { <<>>,
                 History(Losses(CB_CONSECUTIVE_LOSS_TRIGGER), SmallPnl, Today),
                 History(<<"W", "L">>, BigLoss, Today) } }

\* validate on the arguments i, reading the clock at t
ValidateAt(i, t) == Validate([i EXCEPT !.now = t])

InitRepeat ==
    /\ pc = "call"
    /\ inp \in RepeatInputs
    /\ res = NoResult
    /\ now = Today
    /\ portfolio_config = NoConfig
    /\ trades = <<>>
    /\ circuit_breaker_events = <<>>
    /\ signals = [s \in {} |-> 0]
    /\ last = NoCall
    /\ awaitable = FALSE

FirstValidate ==
    /\ pc = "call"
    /\ pc' = "returned"
    /\ \E r \in {ValidateAt(inp, now)} :
          /\ res' = r
          /\ last' = [NoCall EXCEPT !.called = TRUE, !.at = now,
                                    !.validated = TRUE, !.risk_result = r]
    /\ UNCHANGED <<inp, now, portfolio_config, trades,
                   circuit_breaker_events, signals, awaitable>>

ClockTick ==
    /\ pc = "returned"
    /\ now < Today + MaxTicks
    /\ now' = now + 1
    /\ UNCHANGED <<pc, inp, res, portfolio_config, trades,
                   circuit_breaker_events, signals, last, awaitable>>

SecondValidate ==
    /\ pc = "returned"
    /\ pc' = "again"
    /\ res' = ValidateAt(inp, now)
    /\ UNCHANGED <<inp, now, portfolio_config, trades,
                   circuit_breaker_events, signals, last, awaitable>>

NextRepeat == FirstValidate \/ ClockTick \/ SecondValidate

SpecRepeat == InitRepeat /\ [][NextRepeat]_vars

\* ------------------------------------------------------------------------
\* SpecJournal: journal/trade_manager.py on one trade of the journal.  Two
\* callers (two updates handled at once, or the bot and another process on
\* the same database) run TradeManager methods; every repository call is one
\* step, so that calls interleave between a read and the write after it.
\* Here trades holds the journal documents [qty, qty_remaining, status,
\* legs] (legs: the quantities of the recorded exit legs), pc the position
\* of each caller, inp what each caller holds (the Trade it read, the
\* quantity of its leg, the calls it made), res the outcome of its last call.
\* ------------------------------------------------------------------------
Callers == {1, 2}
TradeQtys == {300}
LegQtys == {100, 200, 300}
MaxCalls == 2

NoTrade == [qty |-> 0, qty_remaining |-> 0, status |-> NoneStr, legs |-> <<>>]
Holding(trade, qty, calls) == [trade |-> trade, qty |-> qty, calls |-> calls]

journalidle == <<now, portfolio_config, circuit_breaker_events, signals, last, awaitable>>

\* TradeRepository.get_trade: the stored document, None when there is none
get_trade(journal) == IF journal = <<>> THEN NoTrade ELSE journal[1]

\* TradeRepository.add_leg: $push the leg, $set qty_remaining
add_leg(journal, leg_qty, remaining_qty) ==
    [journal EXCEPT ![1].legs = Append(@, leg_qty),
                    ![1].qty_remaining = remaining_qty]

\* TradeRepository.close_trade: $set status closed, qty_remaining 0
repo_close_trade(journal) ==
    [journal EXCEPT ![1].status = "closed", ![1].qty_remaining = 0]

InitJournal ==
    /\ pc = [c \in Callers |-> "idle"]
    /\ inp = [c \in Callers |-> Holding(NoTrade, 0, 0)]
    /\ res = [c \in Callers |-> NoneStr]
    /\ SysIdle

\* TradeManager.create_trade
create_trade(c, qty) ==
    /\ pc[c] = "idle"
    /\ trades = <<>>
    /\ trades' = <<[qty |-> qty, qty_remaining |-> qty, status |-> "open",
                    legs |-> <<>>]>>
    /\ res' = [res EXCEPT ![c] = "created"]
    /\ UNCHANGED <<pc, inp, journalidle>>

\* TradeManager.partial_close, lines 133-138: get_trade and the check of the
\* leg quantity against the qty_remaining that was read
partial_close_read(c, leg_qty) ==
    /\ pc[c] = "idle"
    /\ inp[c].calls < MaxCalls
    /\ LET trade == get_trade(trades)
       IN IF trade = NoTrade \/ leg_qty > trade.qty_remaining
          THEN /\ res' = [res EXCEPT ![c] = "ValueError"]
               /\ inp' = [inp EXCEPT ![c].calls = @ + 1]
               /\ UNCHANGED pc
          ELSE /\ pc' = [pc EXCEPT ![c] = "partial_add_leg"]
               /\ inp' = [inp EXCEPT ![c] = Holding(trade, leg_qty, @.calls + 1)]
               /\ UNCHANGED res
    /\ UNCHANGED <<trades, journalidle>>

\* lines 158-159: remaining from the trade that was read, then add_leg
partial_close_add_leg(c) ==
    /\ pc[c] = "partial_add_leg"
    /\ LET remaining == inp[c].trade.qty_remaining - inp[c].qty
       IN /\ trades' = add_leg(trades, inp[c].qty, remaining)
          /\ IF remaining = 0
             THEN pc' = [pc EXCEPT ![c] = "partial_close_trade"] /\ UNCHANGED res
             ELSE /\ pc' = [pc EXCEPT ![c] = "idle"]
                  /\ res' = [res EXCEPT ![c] = "open"]
    /\ UNCHANGED <<inp, journalidle>>

\* lines 162-192: the last leg closes the trade
partial_close_trade(c) ==
    /\ pc[c] = "partial_close_trade"
    /\ trades' = repo_close_trade(trades)
    /\ pc' = [pc EXCEPT ![c] = "idle"]
    /\ res' = [res EXCEPT ![c] = "closed"]
    /\ UNCHANGED <<inp, journalidle>>

\* TradeManager.close_trade, lines 40-45: get_trade and the status check
close_trade_read(c) ==
    /\ pc[c] = "idle"
    /\ inp[c].calls < MaxCalls
    /\ LET trade == get_trade(trades)
       IN IF trade = NoTrade \/ trade.status # "open"
          THEN /\ res' = [res EXCEPT ![c] = "ValueError"]
               /\ inp' = [inp EXCEPT ![c].calls = @ + 1]
               /\ UNCHANGED pc
          ELSE /\ pc' = [pc EXCEPT ![c] = IF trade.legs # <<>>
                                          THEN "close_add_leg"
                                          ELSE "close_trade"]
               /\ inp' = [inp EXCEPT ![c] = Holding(trade, trade.qty_remaining,
                                                    @.calls + 1)]
               /\ UNCHANGED res
    /\ UNCHANGED <<trades, journalidle>>

\* lines 66-96: a trade read with legs gets a final leg of its qty_remaining
close_trade_add_leg(c) ==
    /\ pc[c] = "close_add_leg"
    /\ trades' = add_leg(trades, inp[c].trade.qty_remaining, 0)
    /\ pc' = [pc EXCEPT ![c] = "close_trade"]
    /\ UNCHANGED <<inp, res, journalidle>>

\* line 125: repo.close_trade
close_trade_write(c) ==
    /\ pc[c] = "close_trade"
    /\ trades' = repo_close_trade(trades)
    /\ pc' = [pc EXCEPT ![c] = "idle"]
    /\ res' = [res EXCEPT ![c] = "closed"]
    /\ UNCHANGED <<inp, journalidle>>

NextJournal ==
    \/ \E c \in Callers, qty \in TradeQtys : create_trade(c, qty)
    \/ \E c \in Callers, leg_qty \in LegQtys : partial_close_read(c, leg_qty)
    \/ \E c \in Callers : partial_close_add_leg(c)
    \/ \E c \in Callers : partial_close_trade(c)
    \/ \E c \in Callers : close_trade_read(c)
    \/ \E c \in Callers : close_trade_add_leg(c)
    \/ \E c \in Callers : close_trade_write(c)

SpecJournal == InitJournal /\ [][NextJournal]_vars

\* ------------------------------------------------------------------------
\* SpecMonitor: data/fetcher.py, the NetworkHealthMonitor of one
\* YFinanceFetcher and the calls made on it one after the other, directly
\* or by fetch_history.  Time is in whole seconds (now is the wall clock
\* that datetime.now() reads); the recovery timeout is scaled to a few
\* seconds.  Here inp is the monitor object, res the outcome of the last
\* call, pc the name of the last call, and last the record of the calls
\* made: the record_failure calls since the last record_success and the
\* time of the last one.
\* ------------------------------------------------------------------------
FailureThresholds == {1, 2, 3}
RecoveryTimeouts == {0, 2}
max_retries == 3
MaxSeconds == 4
MaxFailures == 4

FetchOutcomes == {"ok", "network", "rate_limit", "unexpected", "invalid_ticker", "data_quality"}

\* NetworkHealthMonitor.__init__
NetworkHealthMonitor(failure_threshold, recovery_timeout_seconds) ==
    [consecutive_failures |-> 0,
     failure_threshold |-> failure_threshold,
     recovery_timeout |-> recovery_timeout_seconds,
     circuit_open_until |-> NoneInt]

\* a record_success that leaves the failure count as it is
record_success_keeping_count(monitor) ==
    [monitor EXCEPT !.circuit_open_until = NoneInt]

\* NetworkHealthMonitor.record_success
record_success(monitor) ==
    [monitor EXCEPT !.consecutive_failures = 0, !.circuit_open_until = NoneInt]

\* NetworkHealthMonitor.record_failure at wall-clock time t
record_failure(monitor, t) ==
    LET failures == monitor.consecutive_failures + 1
    IN [monitor EXCEPT
            !.consecutive_failures = failures,
            !.circuit_open_until =
                IF failures >= monitor.failure_threshold
                THEN t + monitor.recovery_timeout ELSE @]

\* NetworkHealthMonitor.is_circuit_open at wall-clock time t: the value it
\* returns and the monitor it leaves (an elapsed circuit_open_until is
\* cleared)
is_circuit_open(monitor, t) ==
    IF monitor.circuit_open_until # NoneInt /\ t < monitor.circuit_open_until
    THEN [value |-> TRUE, monitor |-> monitor]
    ELSE [value |-> FALSE,
          monitor |-> IF monitor.circuit_open_until # NoneInt
                      THEN [monitor EXCEPT !.circuit_open_until = NoneInt]
                      ELSE monitor]

Outcome(value, raised, downloads) == [value |-> value, raised |-> raised, downloads |-> downloads]
NoOutcome == Outcome(FALSE, NoneStr, 0)
Calls(failures, last_failure_at) == [failures |-> failures, last_failure_at |-> last_failure_at]

monitoridle == <<portfolio_config, trades, circuit_breaker_events, signals, awaitable>>

InitMonitor ==
    /\ pc = "init"
    /\ inp \in { NetworkHealthMonitor(th, rt) :
                    th \in FailureThresholds, rt \in RecoveryTimeouts }
    /\ res = NoOutcome
    /\ now = 0
    /\ last = Calls(0, NoneInt)
    /\ portfolio_config = NoConfig
    /\ trades = <<>>
    /\ circuit_breaker_events = <<>>
    /\ signals = [s \in {} |-> 0]
    /\ awaitable = FALSE

CallRecordFailure ==
    /\ inp.consecutive_failures < MaxFailures
    /\ pc' = "record_failure"
    /\ inp' = record_failure(inp, now)
    /\ res' = NoOutcome
    /\ last' = Calls(last.failures + 1, now)
    /\ UNCHANGED <<now, monitoridle>>

CallRecordSuccess ==
    /\ pc' = "record_success"
    /\ inp' = record_success(inp)
    /\ res' = NoOutcome
    /\ last' = Calls(0, NoneInt)
    /\ UNCHANGED <<now, monitoridle>>

CallIsCircuitOpen ==
    /\ pc' = "is_circuit_open"
    /\ \E r \in {is_circuit_open(inp, now)} :
          /\ inp' = r.monitor
          /\ res' = Outcome(r.value, NoneStr, 0)
    /\ UNCHANGED <<now, last, monitoridle>>

\* YFinanceFetcher.fetch_history: outcome is what the last download attempt
\* met, attempt the attempt it ended on, elapsed the seconds the call took
CallFetchHistory(outcome, attempt, elapsed) ==
    /\ now + elapsed <= MaxSeconds
    /\ inp.consecutive_failures < MaxFailures
    /\ outcome \in {"network", "rate_limit", "unexpected"} => attempt = max_retries
    /\ pc' = "fetch_history"
    /\ \E r \in {is_circuit_open(inp, now)} :
          IF r.value
          THEN /\ inp' = r.monitor
               /\ res' = Outcome(TRUE, "CircuitBreakerError", 0)
               /\ UNCHANGED <<now, last>>
          ELSE /\ now' = now + elapsed
               /\ CASE outcome = "ok" ->
                         /\ inp' = record_success(r.monitor)
                         /\ res' = Outcome(FALSE, NoneStr, attempt)
                         /\ last' = Calls(0, NoneInt)
                    [] outcome = "network" ->
                         /\ inp' = record_failure(r.monitor, now + elapsed)
                         /\ res' = Outcome(FALSE, "NetworkError", attempt)
                         /\ last' = Calls(last.failures + 1, now + elapsed)
                    [] outcome = "rate_limit" ->
                         /\ inp' = r.monitor
                         /\ res' = Outcome(FALSE, "RateLimitError", attempt)
                         /\ UNCHANGED last
                    [] outcome = "unexpected" ->
                         /\ inp' = r.monitor
                         /\ res' = Outcome(FALSE, "NetworkError", attempt)
                         /\ UNCHANGED last
                    [] outcome = "invalid_ticker" ->
                         /\ inp' = r.monitor
                         /\ res' = Outcome(FALSE, "InvalidTickerError", attempt)
                         /\ UNCHANGED last
                    [] OTHER ->
                         /\ inp' = r.monitor
                         /\ res' = Outcome(FALSE, "DataQualityError", attempt)
                         /\ UNCHANGED last
    /\ UNCHANGED monitoridle

\* the wall clock advances by a second
SecondPasses ==
    /\ now < MaxSeconds
    /\ now' = now + 1
    /\ pc' = "clock"
    /\ UNCHANGED <<inp, res, last, monitoridle>>

NextMonitor ==
    \/ CallRecordFailure
    \/ CallRecordSuccess
    \/ CallIsCircuitOpen
    \/ \E outcome \in FetchOutcomes, attempt \in 1..max_retries, elapsed \in {0, 1} : CallFetchHistory(outcome, attempt, elapsed)
    \/ SecondPasses

SpecMonitor == InitMonitor /\ [][NextMonitor]_vars

\* ------------------------------------------------------------------------
\* Properties of one validate call (SpecValidate)
\* ------------------------------------------------------------------------
Returned == pc = "returned"
Suspended(r) == ~r.passed /\ r.verdict_override = "SUSPENDED"
RejectedWait(r) == ~r.passed /\ r.verdict_override = "WAIT"

\* the n most recent exits of the history are all losses
EndsWithLosingStreak(closed, n) ==
    LET dated == { i \in 1..Len(closed) : closed[i].exit_date # NoneInt }
    IN \E S \in SUBSET dated :
          /\ Cardinality(S) = n
          /\ \A i \in S : closed[i].pnl_rupiah < 0
          /\ \A i \in S, j \in dated \ S :
                closed[j].exit_date < closed[i].exit_date

Unexpired(suspension, today) ==
    /\ suspension.present
    /\ suspension.suspended_until # NoneInt
    /\ suspension.suspended_until > today

\* C2: a history ending with at least 5 consecutive losses makes validate
\* return passed = false with verdict SUSPENDED, whatever the other inputs.
C2_LossStreakSuspends ==
    (Returned /\ EndsWithLosingStreak(inp.closed_trades,
                                      CB_CONSECUTIVE_LOSS_TRIGGER))
        => Suspended(res)

\* C3: an active suspension record whose suspended_until is later than the
\* current time makes validate return passed = false with verdict SUSPENDED,
\* whatever its other fields, the history and the portfolio are.
C3_UnexpiredSuspensionBlocks ==
    (Returned /\ Unexpired(inp.active_cb_event, inp.now)) => Suspended(res)

\* C9: every result of validate has heat_after >= heat_before.
C9_HeatAfterNotBelowBefore ==
    Returned => res.heat_after >= res.heat_before

\* what validate sizes the candidate with: the configured risk, or the
\* breaker's override when the breaker is active without blocking
EffectiveRisk(i) ==
    LET cb == check(i.closed_trades, i.portfolio_config.total_capital,
                    i.active_cb_event, i.now)
    IN IF cb.is_active /\ TruthyNum(cb.risk_override)
       THEN cb.risk_override ELSE i.portfolio_config.risk_per_trade

\* shares of the final size: sized, then re-clamped for correlation
FinalShares(i) ==
    LET capital == i.portfolio_config.total_capital
        sizing == calculate_position_size(capital, EffectiveRisk(i),
                    i.signal.entry_price, i.signal.sl_price,
                    get_sector_info(i.signal.symbol, SectorMapDocs)[2] = "small")
    IN IF sizing.error # "" THEN 0
       ELSE CorrelationReclamp(sizing, i.signal.entry_price, capital,
                               i.portfolio_config, i.stock_returns,
                               i.ihsg_returns).shares

\* shares * (entry - stop) / capital
ActualRisk(i, shares) ==
    ToFrac(shares * (i.signal.entry_price - i.signal.sl_price),
           i.portfolio_config.total_capital)

HeatBefore(i) == SumSeq(MapSeq(i.open_trades, TradeRisk))

Projection(i) == HeatBefore(i) + ActualRisk(i, FinalShares(i))

\* C10 as stated: validate rejects with WAIT exactly when heat_before plus
\* the actual risk of the final size exceeds max_heat; the rejected result
\* reports that projection as heat_after, and every passed result has
\* heat_after = heat_before + actual risk <= max_heat.
C10_WaitExactlyOnProjection ==
    Returned =>
        /\ RejectedWait(res) <=> Projection(inp) > inp.portfolio_config.max_heat
        /\ RejectedWait(res) => res.heat_after = Projection(inp)
        /\ res.passed =>
              /\ res.heat_after = res.heat_before
                    + ActualRisk(inp, res.lot_size * LotUnit)
              /\ res.heat_after <= inp.portfolio_config.max_heat

\* the rejections of the gates that come before the projection
EarlierGateRejected(r) ==
    /\ ~r.passed
    /\ r.block_reason.text # "Heat Limit Reached."

\* C10 amended: unless an earlier gate (breaker, heat at the limit, sector,
\* sizing error) rejects first, validate rejects with WAIT exactly when
\* heat_before plus the actual risk of the final size exceeds max_heat; that
\* rejection reports the projection as heat_after, and every passed result
\* has heat_after = heat_before + actual risk <= max_heat.
C10_ProjectionGate ==
    (Returned /\ ~EarlierGateRejected(res)) =>
        /\ res.heat_before = HeatBefore(inp)
        /\ RejectedWait(res) <=> Projection(inp) > inp.portfolio_config.max_heat
        /\ RejectedWait(res) => res.heat_after = Projection(inp)
        /\ res.passed =>
              /\ res.heat_after = res.heat_before
                    + ActualRisk(inp, res.lot_size * LotUnit)
              /\ res.heat_after <= inp.portfolio_config.max_heat

\* a candidate refused by the projection although the heat was below the limit
C10_Witness ==
    /\ Returned
    /\ RejectedWait(res)
    /\ res.heat_before < inp.portfolio_config.max_heat
    /\ res.heat_after > inp.portfolio_config.max_heat

\* ------------------------------------------------------------------------
\* Properties of the pipeline (Spec, SpecBreaker)
\* ------------------------------------------------------------------------
OpenPositions == get_open_trades(NoneStr, "nesa")

\* what generate's validation decides for the candidate of a stock
Approval(symbol) == generate(symbol, Candidate, NoneStr)

IndividuallyApproved(t) ==
    /\ Approval(t.symbol).validated
    /\ Approval(t.symbol).risk_result.passed

\* the risk validation approved for the position's candidate
ApprovedRisk(t) ==
    Approval(t.symbol).risk_result.heat_after
        - Approval(t.symbol).risk_result.heat_before

C4_ReadFailureYieldsWait ==
    (last.called /\ last.error = "RepositoryUnavailable")
        => /\ last.signal.verdict = "WAIT"
           /\ last.signal.risk_warnings # <<>>

\* C5: with no portfolio configuration, a candidate signal is rejected with
\* an instructive reason (risk_blocked, block reason set, verdict not BUY).
C5_NoConfigRejects ==
    (/\ last.called
     /\ last.error = NoneStr
     /\ last.signal.verdict # "HOLD"
     /\ get_config("nesa") = NoConfig)
        => /\ last.signal.risk_blocked
           /\ last.signal.block_reason # NoMsg
           /\ last.signal.verdict # "BUY"

NewlyTriggered(call) == call.validated /\ call.cb_status.fresh

\* an unresolved event in the store still suspends at time t
RecordedSuspension(t) ==
    Unexpired(find_active_cb(circuit_breaker_events), t)

\* C6: every suspension ends: after a trigger fired, a call made later than
\* its suspended_until, with the closed-trade history unchanged, is no
\* longer blocked by the circuit breaker.
C6_SuspensionEnds ==
    [][ (/\ NewlyTriggered(last)
         /\ last'.validated
         /\ last'.at > last.cb_status.suspended_until
         /\ trades' = trades
         /\ ~RecordedSuspension(last'.at))
            => /\ ~last'.cb_status.is_active
               /\ ~Suspended(last'.risk_result) ]_vars

\* C7: generate persists a newly triggered suspension as a circuit-breaker
\* event, so that later calls read it and report the same suspended_until.
C7_TriggerPersisted ==
    NewlyTriggered(last)
        => \E i \in 1..Len(circuit_breaker_events) :
              /\ ~circuit_breaker_events[i].resolved
              /\ circuit_breaker_events[i].suspended_until
                    = last.cb_status.suspended_until

OwnEvents(user) ==
    SelectSeq(circuit_breaker_events, LAMBDA e : e.owner = user)

\* C8: an unresolved circuit-breaker event of another user never changes the
\* validation result: the result is the one the run without the other
\* users' events gives.
C8_SuspensionPerPortfolio ==
    last.validated
        => last.risk_result =
              validate([symbol |-> last.symbol,
                        entry_price |-> Candidate.entry_price,
                        sl_price |-> Candidate.sl_price],
                       get_open_trades(get_config("nesa").user, "nesa"),
                       get_config("nesa"), NoSeries, NoSeries,
                       find_active_cb(OwnEvents("nesa")),
                       find_closed_trades("nesa"), SectorMapDocs, last.at)

\* ------------------------------------------------------------------------
\* Properties of the sizing and of the limits validate applies (SpecValidate)
\* ------------------------------------------------------------------------
IsSmallCap(i) == get_sector_info(i.signal.symbol, SectorMapDocs)[2] = "small"

\* the correlation guard fires for the candidate
CorrelationTriggered(i) ==
    /\ i.stock_returns.present
    /\ i.ihsg_returns.present
    /\ should_reduce_size_by_correlation(
          calculate_correlation(i.stock_returns, i.ihsg_returns, DefaultPeriod))

\* the portfolio's limit for the candidate's class
ConfiguredCap(i) ==
    IF IsSmallCap(i) THEN i.portfolio_config.max_small_cap_exposure
    ELSE i.portfolio_config.max_exposure_pct

\* the cap that applies: the class limit, halved under high correlation
ApplicableCap(i) ==
    IF CorrelationTriggered(i) THEN ConfiguredCap(i) \div 2 ELSE ConfiguredCap(i)

\* C11: every passed result has exposure_pct at most the cap that applies to
\* the candidate: the small-cap limit if it is small-cap, otherwise the
\* normal limit, and half of that cap when the correlation guard fires.
C11_ExposureWithinApplicableCap ==
    (Returned /\ res.passed) => res.exposure_pct <= ApplicableCap(inp)

\* C12: the exposure caps used for sizing are the configured ones: a passed
\* result's exposure_pct does not exceed config.max_exposure_pct for a normal
\* candidate nor config.max_small_cap_exposure for a small-cap candidate.
C12_ExposureWithinConfiguredCap ==
    (Returned /\ res.passed) => res.exposure_pct <= ConfiguredCap(inp)

\* C13: a sized quantity that rounds down to zero shares is an explicit
\* rejection; validate never returns passed = true with lot_size 0.
C13_NoZeroLotPass ==
    Returned => ~(res.passed /\ res.lot_size = 0)

Unset(x) == x = NoneInt
NonEmptyReason(m) == m.text # NoneStr /\ m.text # ""

\* C14: a result with passed = false has lot_size and exposure_pct unset and
\* a non-empty block_reason; a result with passed = true has no block_reason
\* and no verdict_override, and has lot_size and exposure_pct set.
C14_ResultShape ==
    Returned =>
        /\ ~res.passed =>
              /\ Unset(res.lot_size)
              /\ Unset(res.exposure_pct)
              /\ NonEmptyReason(res.block_reason)
        /\ res.passed =>
              /\ res.block_reason = NoMsg
              /\ res.verdict_override = NoneStr
              /\ ~Unset(res.lot_size)
              /\ ~Unset(res.exposure_pct)

\* a suspension reported with its reason
C14_Witness ==
    /\ Returned
    /\ Suspended(res)
    /\ NonEmptyReason(res.block_reason)
    /\ Unset(res.lot_size)

\* the decision of each gate of validate on the arguments of a call
BreakerStatus(i) ==
    check(i.closed_trades, i.portfolio_config.total_capital,
          i.active_cb_event, i.now)

SectorCheck(i) ==
    check_sector_limit(i.signal.symbol,
                       get_sector_info(i.signal.symbol, SectorMapDocs)[1],
                       i.open_trades, SectorMapDocs)

Sizing(i) ==
    calculate_position_size(i.portfolio_config.total_capital, EffectiveRisk(i),
                            i.signal.entry_price, i.signal.sl_price,
                            IsSmallCap(i))

\* the first gate, in the order breaker, current heat, sector, sizing,
\* projected heat, that blocks the call ("none" when all let it through)
FirstBlockingGate(i) ==
    IF BreakerStatus(i).is_active THEN "breaker"
    ELSE IF HeatBefore(i) >= i.portfolio_config.max_heat THEN "heat"
    ELSE IF ~SectorCheck(i).allowed THEN "sector"
    ELSE IF Sizing(i).error # "" THEN "sizing"
    ELSE IF Projection(i) > i.portfolio_config.max_heat THEN "projection"
    ELSE "none"

\* the verdict and the reason a gate rejects with
RejectionOf(gate, i) ==
    CASE gate = "breaker" -> <<"SUSPENDED", BreakerStatus(i).message.text>>
      [] gate = "heat" ->
            <<"WAIT", "Portfolio Heat Limit reached. Close positions first.">>
      [] gate = "sector" -> <<"WAIT", SectorCheck(i).message.text>>
      [] gate = "sizing" -> <<"WAIT", Sizing(i).error>>
      [] gate = "projection" -> <<"WAIT", "Heat Limit Reached.">>

\* C15: validate evaluates its gates in the order circuit breaker, current
\* heat, sector limit, sizing, correlation re-clamp, projected heat; the
\* verdict and block reason of a rejection are those of the first gate in
\* this order that blocks (an active suspension with heat at the limit gives
\* SUSPENDED, heat at the limit with an invalid stop gives the heat-limit
\* rejection), and a call no gate blocks passes.
C15_FirstBlockingGateDecides ==
    Returned =>
        IF FirstBlockingGate(inp) = "none" THEN res.passed
        ELSE /\ ~res.passed
             /\ <<res.verdict_override, res.block_reason.text>>
                   = RejectionOf(FirstBlockingGate(inp), inp)

\* a candidate calculate_position_size refuses: stop >= entry, stop <= 0 or
\* entry <= 0
Malformed(signal) ==
    \/ signal.sl_price >= signal.entry_price
    \/ signal.sl_price <= 0
    \/ signal.entry_price <= 0

NonPositiveCapitals == { c \in SizerCapitals : c <= 0 }

\* the sizing of the candidate of a call on a capital of its own
SizingOn(capital, i) ==
    calculate_position_size(capital, EffectiveRisk(i), i.signal.entry_price,
                            i.signal.sl_price, IsSmallCap(i))

\* C16 as stated: a malformed candidate or a non-positive capital makes
\* calculate_position_size return an error result, and validate returns
\* passed=false with verdict WAIT and a reason for a malformed candidate.
C16_MalformedRejectedWait ==
    Returned =>
        /\ \A c \in NonPositiveCapitals : SizingOn(c, inp).error # ""
        /\ Malformed(inp.signal) =>
              /\ Sizing(inp).error # ""
              /\ RejectedWait(res)
              /\ NonEmptyReason(res.block_reason)

\* C16 (amended): a malformed candidate or a non-positive capital makes
\* calculate_position_size return an error result, and validate returns
\* passed=false with a reason for a malformed candidate; the verdict is WAIT
\* unless the circuit breaker has an active suspension, and SUSPENDED only
\* when it has one.
C16_MalformedRejected ==
    Returned =>
        /\ \A c \in NonPositiveCapitals : SizingOn(c, inp).error # ""
        /\ Malformed(inp.signal) =>
              /\ Sizing(inp).error # ""
              /\ ~res.passed
              /\ NonEmptyReason(res.block_reason)
              /\ res.verdict_override \in {"WAIT", "SUSPENDED"}
              /\ ~BreakerStatus(inp).is_active => RejectedWait(res)
              /\ Suspended(res) => BreakerStatus(inp).is_active

\* a malformed candidate reached the sizing and was rejected with its error
C16_Witness ==
    /\ Returned
    /\ Malformed(inp.signal)
    /\ RejectedWait(res)
    /\ res.block_reason.text = Sizing(inp).error
    /\ Sizing(inp).error # ""


\* ------------------------------------------------------------------------
\* Properties of calculate_position_size (SpecSizer)
\* ------------------------------------------------------------------------
ValidSizing(i) ==
    /\ i.capital > 0
    /\ i.entry_price > 0
    /\ i.sl_price > 0
    /\ i.sl_price < i.entry_price

CapOf(i) ==
    IF i.is_small_cap THEN MAX_SMALL_CAP_EXPOSURE ELSE MAX_EXPOSURE_PER_STOCK

CapWarning(r, cap) ==
    \E k \in 1..Len(r.warnings) : r.warnings[k] = Msg("Exposure exceeds max", cap)

\* q = floor(a / b), stated by multiplication
IsFloor(q, a, b) == q * b <= a /\ a < (q + 1) * b

ScenarioA ==
    [capital |-> 1000000000, risk_pct |-> 100, entry_price |-> 7200,
     sl_price |-> 6800, is_small_cap |-> FALSE]

ScenarioB ==
    [capital |-> 1000000000, risk_pct |-> 100, entry_price |-> 1000,
     sl_price |-> 999, is_small_cap |-> FALSE]

\* C17: for all valid inputs calculate_position_size returns
\* lots = floor(floor(capital*riskPct/(entry-stop))/100), replaced by
\* lots = floor(floor(cap*capital/entry)/100) together with a warning naming
\* the cap exactly when the uncapped exposure exceeds the cap; lots is a
\* non-negative integer, shares = lots*100 and exposure = shares*entry; capital
\* 1,000,000,000 at risk 1% gives 250 lots without warning for entry 7200,
\* stop 6800, and 2,500 lots with a cap warning for entry 1000, stop 999.
C17_SizingFormula ==
    (pc = "returned" /\ ValidSizing(inp)) =>
        LET riskAmount == FracOf(inp.risk_pct, inp.capital)
            distance == inp.entry_price - inp.sl_price
            cap == CapOf(inp)
            capAmount == FracOf(cap, inp.capital)
            uncapped == (riskAmount \div distance) \div 100
            capShares == capAmount \div inp.entry_price
            \* uncapped * 100 * entry > cap * capital, without the product
            exceeds == uncapped * 100 > capShares
        IN /\ res.error = ""
           /\ res.lots = IF exceeds THEN capShares \div 100 ELSE uncapped
           /\ CapWarning(res, cap) <=> exceeds
           /\ res.lots \in Nat
           /\ res.shares = res.lots * 100
           /\ res.exposure_rupiah = res.shares * inp.entry_price
           /\ ~exceeds => IsFloor(res.lots, riskAmount, 100 * distance)
           /\ exceeds => IsFloor(res.lots, capAmount, 100 * inp.entry_price)
           /\ inp = ScenarioA => res.lots = 250 /\ res.warnings = <<>>
           /\ inp = ScenarioB => res.lots = 2500 /\ CapWarning(res, cap)

\* the second scenario was sized: capped at 2,500 lots with the cap warning
C17_Witness ==
    /\ pc = "returned"
    /\ inp = ScenarioB
    /\ res.lots = 2500
    /\ res.shares = 250000
    /\ CapWarning(res, MAX_EXPOSURE_PER_STOCK)


\* ------------------------------------------------------------------------
\* Properties of the heat, cash-reserve and sector gates (SpecValidate)
\* ------------------------------------------------------------------------
HasWarning(r, text) == \E k \in 1..Len(r.warnings) : r.warnings[k].text = text

HeatLimitReason == "Portfolio Heat Limit reached. Close positions first."

\* the status of the portfolio heat against the configured thresholds
ConfiguredHeatStatus(i) ==
    IF HeatBefore(i) >= i.portfolio_config.max_heat THEN "limit"
    ELSE IF HeatBefore(i) >= i.portfolio_config.heat_warning_threshold
         THEN "warning"
    ELSE "safe"

\* C18: calculate_portfolio_heat returns current_heat equal to the sum of
\* the open positions' risk fractions and status 'limit' if current_heat >=
\* max_heat, 'warning' if current_heat >= the portfolio's configured heat
\* warning threshold, otherwise 'safe'; validate (once past the circuit
\* breaker) rejects with WAIT exactly on 'limit' and only adds a
\* non-blocking warning on 'warning'.
C18_HeatStatusFromConfig ==
    (Returned /\ ~Suspended(res)) =>
        LET heat_status ==
                calculate_portfolio_heat(inp.open_trades,
                                         inp.portfolio_config.total_capital,
                                         inp.portfolio_config.max_heat)
        IN /\ heat_status.current_heat = HeatBefore(inp)
           /\ res.heat_before = HeatBefore(inp)
           /\ heat_status.status = ConfiguredHeatStatus(inp)
           /\ (RejectedWait(res) /\ res.block_reason.text = HeatLimitReason)
                 <=> ConfiguredHeatStatus(inp) = "limit"
           /\ res.passed =>
                 (HasWarning(res, "Portfolio Heat is high")
                     <=> ConfiguredHeatStatus(inp) = "warning")


\* the open exposure leaves less cash than the configured target
BelowCashTarget(i) ==
    LET capital == i.portfolio_config.total_capital
        exposure == SumSeq(MapSeq(i.open_trades, TradeExposure))
    IN capital - exposure < FracOf(i.portfolio_config.cash_reserve_target, capital)

\* C19: the cash-reserve check never blocks: validate attaches a
\* cash-reserve warning exactly when (capital - total open exposure)/capital
\* is below the portfolio's configured cash_reserve_target, and no rejection
\* carries the cash reserve as its reason.
C19_CashWarningFromConfig ==
    Returned =>
        /\ res.passed =>
              (HasWarning(res, "Cash Reserve below target") <=> BelowCashTarget(inp))
        /\ ~res.passed => res.block_reason.text # "Cash Reserve below target"


\* the open positions, other than one in the candidate symbol itself, whose
\* looked-up sector is the candidate's; none when that sector is 'Other'
SameSectorCount(i) ==
    LET sector == get_sector_info(i.signal.symbol, SectorMapDocs)[1]
    IN Cardinality({ k \in 1..Len(i.open_trades) :
                       /\ i.open_trades[k].symbol # i.signal.symbol
                       /\ MappedSector(i.open_trades[k].symbol, SectorMapDocs) = sector
                       /\ sector # "Other" })

SectorFull(i) == SameSectorCount(i) >= i.portfolio_config.max_stocks_per_sector

\* C20: check_sector_limit counts the open positions, excluding any in the
\* candidate symbol itself, whose looked-up sector equals the candidate's
\* sector, never counting 'Other'; it returns allowed=false exactly when that
\* count has reached the portfolio's configured max_stocks_per_sector, and
\* validate (once past the circuit breaker) then rejects with WAIT.
C20_SectorLimitFromConfig ==
    Returned =>
        /\ SectorCheck(inp).count = SameSectorCount(inp)
        /\ ~SectorCheck(inp).allowed <=> SectorFull(inp)
        /\ (SectorFull(inp) /\ ~Suspended(res)) => RejectedWait(res)


\* ------------------------------------------------------------------------
\* Properties of the correlation guard (SpecCorrelation)
\* ------------------------------------------------------------------------
\* a return series is missing, or has fewer than the lookback number of
\* observations, or of aligned observations
DataAbsent(i) ==
    \/ ~i.stock_returns.present
    \/ ~i.ihsg_returns.present
    \/ i.stock_returns.len < CORRELATION_LOOKBACK_DAYS
    \/ i.ihsg_returns.len < CORRELATION_LOOKBACK_DAYS
    \/ i.stock_returns.valid < CORRELATION_LOOKBACK_DAYS
    \/ i.ihsg_returns.valid < CORRELATION_LOOKBACK_DAYS

\* the call with no correlation check at all
WithoutSeries(i) ==
    [i EXCEPT !.stock_returns = NoSeries, !.ihsg_returns = NoSeries]

\* C21: absence of correlation data never restricts a trade: when either
\* return series is missing or either has fewer than the lookback number of
\* aligned observations, the correlation is reported as 0, reduce is false,
\* and validate's lot_size, exposure_pct and warnings equal those obtained
\* with no correlation check at all.
C21_AbsentDataNeverRestricts ==
    (Returned /\ DataAbsent(inp)) =>
        /\ (inp.stock_returns.present /\ inp.ihsg_returns.present) =>
              /\ calculate_correlation(inp.stock_returns, inp.ihsg_returns,
                                       DefaultPeriod) = 0
              /\ ~should_reduce_size_by_correlation(
                      calculate_correlation(inp.stock_returns,
                                            inp.ihsg_returns, DefaultPeriod))
        /\ \E plain \in { Validate(WithoutSeries(inp)) } :
              /\ res.lot_size = plain.lot_size
              /\ res.exposure_pct = plain.exposure_pct
              /\ res.warnings = plain.warnings
              /\ res.passed = plain.passed

\* a candidate whose series is too short passed at an exposure the guard
\* would have cut had the stored coefficient counted
C21_Witness ==
    /\ Returned
    /\ inp.stock_returns.present /\ inp.ihsg_returns.present
    /\ inp.stock_returns.len < CORRELATION_LOOKBACK_DAYS
    /\ inp.stock_returns.corr > CORRELATION_THRESHOLD
    /\ res.passed
    /\ 2 * res.exposure_pct > inp.portfolio_config.max_exposure_pct


ClosedThisMonth(i) ==
    SelectSeq(i.closed_trades,
              LAMBDA t : t.exit_date # NoneInt
                         /\ t.exit_date >= StartOfMonth(i.now))

LossOf(t) == IF t.pnl_rupiah < 0 THEN 0 - t.pnl_rupiah ELSE 0

\* the realized losses of the month and the month's realized PnL
RealizedLosses(i) == SumSeq(MapSeq(ClosedThisMonth(i), LossOf))
RealizedPnl(i) == SumSeq(MapSeq(ClosedThisMonth(i), TradePnl))
MonthStartCapital(i) == i.current_capital - RealizedPnl(i)

\* realized losses / month-start capital >= 10%, compared without division
DrawdownReached(i) ==
    /\ MonthStartCapital(i) > 0
    /\ RealizedLosses(i) * FracDen >= CB_DRAWDOWN_TRIGGER * MonthStartCapital(i)

DrawdownSuspension(r, i) ==
    /\ r.is_active
    /\ r.trigger_type = DRAWDOWN_10PCT
    /\ r.suspended_until = i.now + CB_DRAWDOWN_SUSPEND_DAYS
    /\ r.risk_override = CB_REDUCED_RISK

\* C23: with no unexpired suspension record, check reports a drawdown
\* suspension with suspended_until = now + 7 days and risk_override 0.25%
\* exactly when the monthly drawdown, the realized losses of trades closed in
\* the current calendar month divided by the month-start capital estimate
\* (current capital minus this month's realized PnL), is at least 10%.
C23_DrawdownSuspension ==
    (Returned /\ ~Unexpired(inp.active_suspension, inp.now)) =>
        (DrawdownSuspension(res, inp) <=> DrawdownReached(inp))


\* the number of losing trades at the head of the dated closed trades taken
\* most recent first: the largest n whose n most recent exits are all losses
RecentLossRun(closed) ==
    CHOOSE n \in 0..Len(closed) :
        /\ EndsWithLosingStreak(closed, n)
        /\ \A m \in (n + 1)..Len(closed) : ~EndsWithLosingStreak(closed, m)

LossSuspension(r, i) ==
    /\ r.is_active
    /\ r.trigger_type = CONSECUTIVE_LOSS_5
    /\ r.suspended_until = i.now + CB_LOSS_SUSPEND_DAYS

\* C24: count_consecutive_losses returns the length of the run of losing
\* trades at the head of the closed trades ordered by exit time, most recent
\* first, stopping at the first win; with no unexpired suspension and
\* drawdown below 10%, check reports a consecutive-loss suspension with
\* suspended_until = now + 3 days exactly when that count is at least 5, and
\* is inactive otherwise.
C24_LossStreakSuspension ==
    Returned =>
        /\ count_consecutive_losses(inp.closed_trades)
              = RecentLossRun(inp.closed_trades)
        /\ (~Unexpired(inp.active_suspension, inp.now) /\ ~DrawdownReached(inp)) =>
              IF RecentLossRun(inp.closed_trades) >= CB_CONSECUTIVE_LOSS_TRIGGER
              THEN LossSuspension(res, inp)
              ELSE ~res.is_active

\* a history given oldest first whose five most recent exits are losses
\* after an older win suspended trading for three days
C24_Witness ==
    /\ Returned
    /\ ~Unexpired(inp.active_suspension, inp.now)
    /\ ~DrawdownReached(inp)
    /\ Len(inp.closed_trades) > CB_CONSECUTIVE_LOSS_TRIGGER
    /\ inp.closed_trades[1].pnl_rupiah > 0
    /\ RecentLossRun(inp.closed_trades) = CB_CONSECUTIVE_LOSS_TRIGGER
    /\ LossSuspension(res, inp)


NominalRisk(i) ==
    IF BreakerStatus(i).is_active /\ BreakerStatus(i).risk_override > 0
    THEN BreakerStatus(i).risk_override
    ELSE i.portfolio_config.risk_per_trade

\* C26: for every passed result the risk actually taken never exceeds the
\* nominal risk budget: lot_size*100*(entry-stop) <= capital*risk_per_trade,
\* where risk_per_trade is the configured (or breaker-reduced) fraction,
\* including after exposure capping and the correlation re-clamp.
C26_RiskWithinBudget ==
    (Returned /\ res.passed) =>
        res.lot_size * LotUnit * (inp.signal.entry_price - inp.signal.sl_price) * FracDen
            <= inp.portfolio_config.total_capital * NominalRisk(inp)

\* a candidate sized at the reduced risk of an active breaker passed with
\* at least one lot
C26_Witness ==
    /\ Returned
    /\ res.passed
    /\ res.lot_size > 0
    /\ BreakerStatus(inp).is_active
    /\ NominalRisk(inp) = CB_REDUCED_RISK


\* ------------------------------------------------------------------------
\* The configuration switch of the circuit breaker (SpecValidate)
\* ------------------------------------------------------------------------
\* C27: the portfolio's circuit_breaker_enabled flag enables and disables
\* the breaker: when it is false, validate never returns verdict SUSPENDED,
\* whatever the closed-trade history and suspension record are.
C27_DisabledBreakerNeverSuspends ==
    (Returned /\ ~inp.portfolio_config.circuit_breaker_enabled) =>
        res.verdict_override # "SUSPENDED"


\* ------------------------------------------------------------------------
\* The heat a followed position adds (Spec)
\* ------------------------------------------------------------------------
\* db.trades.find({"status": "open", "user": config.user}) on a journal
OpenOf(journal) ==
    SelectSeq(journal, LAMBDA t : t.user = "nesa" /\ t.status = "open")

\* the current heat the heat monitor reports for a journal
ReportedHeat(journal) ==
    calculate_portfolio_heat(OpenOf(journal), portfolio_config.total_capital,
                             portfolio_config.max_heat).current_heat

\* C28: a position opened through /follow then /confirm adds to the
\* portfolio's current heat exactly the risk fraction it was sized with:
\* after opening one position at risk_per_trade r, calculate_portfolio_heat
\* reports current_heat increased by r, in the same unit as max_heat.
C28_OpenedPositionAddsItsRisk ==
    [][ Len(OpenOf(trades')) = Len(OpenOf(trades)) + 1 =>
           ReportedHeat(trades')
              = ReportedHeat(trades) + portfolio_config.risk_per_trade ]_vars


\* ------------------------------------------------------------------------
\* Properties of the journal's trade (SpecJournal)
\* ------------------------------------------------------------------------
\* the quantities of a stored trade are consistent
QuantitiesConsistent(t) ==
    /\ 0 <= t.qty_remaining
    /\ t.qty_remaining <= t.qty
    /\ SumSeq(t.legs) <= t.qty
    /\ t.status = "closed" => t.qty_remaining = 0

\* a close_trade call that finds the trade not open fails and writes nothing
ClosedTradeRefused ==
    \A c \in Callers :
        (close_trade_read(c) /\ get_trade(trades).status # "open") =>
            /\ res'[c] = "ValueError"
            /\ trades' = trades

\* C29: after any sequence of create_trade, partial_close and close_trade
\* calls on a trade, including two partial_close calls interleaved between
\* their read and their write, 0 <= qty_remaining <= qty holds, the
\* quantities of the recorded exit legs never sum to more than qty, a trade
\* with status closed has qty_remaining = 0, and close_trade on a trade that
\* is not open fails leaving the stored trade unchanged.
C29_TradeQuantitiesConsistent ==
    /\ [](\A i \in 1..Len(trades) : QuantitiesConsistent(trades[i]))
    /\ [][ClosedTradeRefused]_vars


\* ------------------------------------------------------------------------
\* Properties of the fetcher's circuit (SpecMonitor)
\* ------------------------------------------------------------------------
\* what is_circuit_open reports in the current state
ReportedOpen == is_circuit_open(inp, now).value

\* enough failures since the last success, the last of them recent enough
OpeningJustified ==
    /\ last.failures >= inp.failure_threshold
    /\ last.last_failure_at # NoneInt
    /\ now < last.last_failure_at + inp.recovery_timeout

\* a fetch_history call made while the circuit is reported open
FetchWhileOpen == pc' = "fetch_history" /\ ReportedOpen

\* C30: after any sequence of record_failure, record_success and
\* is_circuit_open calls the circuit is reported open only if at least
\* failure_threshold failures were recorded since the last record_success
\* and the recovery timeout has not elapsed since the last of them; while
\* it is reported open, fetch_history raises CircuitBreakerError without
\* attempting any download.
C30_CircuitOpenOnlyAfterFailures ==
    /\ [](ReportedOpen => OpeningJustified)
    /\ []((pc = "is_circuit_open" /\ res.value) => OpeningJustified)
    /\ [][FetchWhileOpen => (res'.raised = "CircuitBreakerError" /\ res'.downloads = 0)]_vars

\* a fetch_history call was refused by a circuit that had recovered once
\* and was opened again by a further failure
C30_Witness ==
    /\ pc = "fetch_history"
    /\ res.raised = "CircuitBreakerError"
    /\ inp.consecutive_failures > inp.failure_threshold
    /\ last.last_failure_at > 0

====
